---- MODULE Spec2Model ----
(***************************************************************************)
(* LwSHELL - lightweight shell (lwshell.c).                                *)
(*                                                                         *)
(* State: the static shell instance (buff, buff_ptr, argc, argv) and the   *)
(* static command table (cmds, cmds_cnt).  Operations: lwshell_init,       *)
(* lwshell_register_cmd, lwshell_input; prv_parse_input is the tokenizer   *)
(* and dispatcher that lwshell_input runs on every CR and LF.              *)
(*                                                                         *)
(* Bytes are their ASCII codes.  A C string is the sequence of bytes in    *)
(* front of its terminating NUL.  A pointer into buff is its offset from   *)
(* buff; the null pointer is NULL.                                         *)
(***************************************************************************)
EXTENDS Integers, Sequences, FiniteSets, TLC

(* ---- characters, lwshell.c:38-43 and the literals of the tokenizer ---- *)
LWSHELL_ASCII_NULL == 0
LWSHELL_ASCII_BACKSPACE == 8
LWSHELL_ASCII_LF == 10
LWSHELL_ASCII_CR == 13
LWSHELL_ASCII_DEL == 127
LWSHELL_ASCII_SPACE == 32
QUOTE == 34
BACKSLASH == 92
CH_c == 99

(* ---- configuration (lwshell.h is not part of the sources; small values) *)
LWSHELL_CFG_MAX_INPUT_LEN == 5
LWSHELL_CFG_MAX_CMD_ARGS == 2
LWSHELL_CFG_MAX_CMDS == 2
\* longest chunk handed to one lwshell_input call in Spec
MaxChunk == 1
\* longest byte stream fed in SpecChunks
MaxStream == 3
MaxPart == 2

\* LWSHELL_ARRAYSIZE(lw->buff), LWSHELL_ARRAYSIZE(lw->argv), LWSHELL_ARRAYSIZE(cmds)
BuffSize == LWSHELL_CFG_MAX_INPUT_LEN + 1
ArgvSize == LWSHELL_CFG_MAX_CMD_ARGS
CmdsSize == LWSHELL_CFG_MAX_CMDS

NULL == -1
\* a null `const char*`
NULLSTR == <<NULL>>

VARIABLES
    buff,       \* shell.buff: [0..BuffSize-1 -> byte]
    buff_ptr,   \* shell.buff_ptr
    argc,       \* shell.argc
    argv,       \* shell.argv: [0..ArgvSize-1 -> offset into buff, or NULL]
    cmds,       \* cmds: [0..CmdsSize-1 -> [fn, name, desc]]
    cmds_cnt,   \* cmds_cnt
    layout,     \* what the build places right behind buff in lwshell_t
    op,         \* the last call made: "none", "init", "register", "input"
    arg,        \* the arguments of the last call
    ret,        \* the value the last call returned
    events,     \* what the last lwshell_input did at each CR and LF
    pending,    \* SpecLine, SpecChunks: the bytes still to be fed
    fed,        \* SpecLine, SpecChunks: the bytes fed so far
    log         \* SpecLine, SpecChunks: the handler calls made so far

vars == <<buff, buff_ptr, argc, argv, cmds, cmds_cnt, layout, op, arg, ret, events,
          pending, fed, log>>

(* ---------------------------------------------------------------------- *)
(* Memory                                                                  *)
(* ---------------------------------------------------------------------- *)

\* memset(lw->buff, 0x00, sizeof(lw->buff))
ZeroBuff == [i \in 0..(BuffSize - 1) |-> LWSHELL_ASCII_NULL]
\* memset(lw->argv, 0x00, sizeof(lw->argv))
ZeroArgv == [i \in 0..(ArgvSize - 1) |-> NULL]
\* a zero-initialised lwshell_cmd_t
ZeroCmd == [fn |-> 0, name |-> NULLSTR, desc |-> 0]

\* The byte at buff + i.  Offsets from BuffSize on lie behind the array: the
\* tokenizer dereferences buff + BuffSize when a line of BuffSize - 1 characters
\* ends in an unquoted token.  What it finds there depends on the layout of
\* lwshell_t: alignment padding (zero), or the bytes of the member that follows
\* (buff_ptr, least significant byte first).
Layouts == {"padded", "packed"}
MemAt(b, bp, lay, i) ==
    IF i < BuffSize THEN b[i]
    ELSE IF lay = "packed" /\ i = BuffSize THEN bp % 256
    ELSE LWSHELL_ASCII_NULL

\* strlen(lw->buff + i): the bytes from offset i up to the first NUL
RECURSIVE CStr(_, _, _, _)
CStr(b, bp, lay, i) ==
    IF MemAt(b, bp, lay, i) = LWSHELL_ASCII_NULL THEN <<>>
    ELSE <<MemAt(b, bp, lay, i)>> \o CStr(b, bp, lay, i + 1)

\* strlen(lw->buff)
StrLen(b, bp, lay) == Len(CStr(b, bp, lay, 0))

(* ---------------------------------------------------------------------- *)
(* prv_parse_input: the tokenizer, lwshell.c:112-154                       *)
(*                                                                         *)
(* A tokenizer state p is [buff, bp, lay, argc, argv, str, hi]: the        *)
(* buffer being cut in place, buff_ptr and the layout (for reads behind    *)
(* the array), the tokens so far, the cursor `str` as an offset, and hi,   *)
(* the highest offset dereferenced or stored in argv so far.               *)
(* ---------------------------------------------------------------------- *)

Max(a, b) == IF a > b THEN a ELSE b

\* *str
Rd(p) == MemAt(p.buff, p.bp, p.lay, p.str)

\* a dereference of str, noted in hi
Deref(p) == [p EXCEPT !.hi = Max(@, p.str)]

\* *str = '\0'.  Behind the array the byte overwritten is already NUL in both
\* layouts (the cursor stops there on a NUL only).
Wr0(p) ==
    IF p.str < BuffSize THEN [p EXCEPT !.buff[p.str] = LWSHELL_ASCII_NULL] ELSE p

\* ++str
Inc(p) == [p EXCEPT !.str = @ + 1]

\* lw->argv[lw->argc++] = str
AddArg(p) ==
    [p EXCEPT !.argv[p.argc] = p.str, !.argc = @ + 1, !.hi = Max(@, p.str)]

\* SkipSpaces without the loop: leading spaces are not removed
SkipSpaces_none(p0) == Deref(p0)

\* lwshell.c:113   while (*str == ' ' && ++str) {}
RECURSIVE SkipSpaces(_)
SkipSpaces(p0) ==
    LET p == Deref(p0) IN
    IF Rd(p) = LWSHELL_ASCII_SPACE THEN SkipSpaces(Inc(p)) ELSE p

\* Quoted that gives up a token no quote closes
RECURSIVE Quoted_drop(_)
Quoted_drop(p0) ==
    LET p == Deref(p0) IN
    IF Rd(p) = LWSHELL_ASCII_NULL THEN [p EXCEPT !.argc = @ - 1]
    ELSE IF Rd(p) = BACKSLASH
    THEN LET q == Deref(Inc(p)) IN
         IF Rd(q) = QUOTE THEN Quoted_drop(Inc(q)) ELSE Quoted_drop(q)
    ELSE IF Rd(p) = QUOTE THEN Inc(Wr0(p))
    ELSE Quoted_drop(Inc(p))

\* Quoted with a space ending the token as it ends a plain one
RECURSIVE Quoted_space(_)
Quoted_space(p0) ==
    LET p == Deref(p0) IN
    IF Rd(p) = LWSHELL_ASCII_NULL THEN p
    ELSE IF Rd(p) = BACKSLASH
    THEN LET q == Deref(Inc(p)) IN
         IF Rd(q) = QUOTE THEN Quoted_space(Inc(q)) ELSE Quoted_space(q)
    ELSE IF Rd(p) = QUOTE \/ Rd(p) = LWSHELL_ASCII_SPACE THEN Inc(Wr0(p))
    ELSE Quoted_space(Inc(p))

\* lwshell.c:124-137   the token behind an opening quote
RECURSIVE Quoted(_)
Quoted(p0) ==
    LET p == Deref(p0) IN
    IF Rd(p) = LWSHELL_ASCII_NULL THEN p
    ELSE IF Rd(p) = BACKSLASH
    THEN LET q == Deref(Inc(p)) IN
         IF Rd(q) = QUOTE THEN Quoted(Inc(q)) ELSE Quoted(q)
    ELSE IF Rd(p) = QUOTE THEN Inc(Wr0(p))
    ELSE Quoted(Inc(p))

\* Plain that takes a quote for a character of the token
RECURSIVE Plain_quote(_)
Plain_quote(p0) ==
    LET p == Deref(p0) IN
    IF Rd(p) # LWSHELL_ASCII_SPACE /\ Rd(p) # LWSHELL_ASCII_NULL
    THEN Plain_quote(Inc(p))
    ELSE Inc(Wr0(p))

\* Plain that leaves the character behind the token as it is
RECURSIVE Plain_open(_)
Plain_open(p0) ==
    LET p == Deref(p0) IN
    IF Rd(p) # LWSHELL_ASCII_SPACE /\ Rd(p) # LWSHELL_ASCII_NULL
    THEN Plain_open(Inc(IF Rd(p) = QUOTE THEN Wr0(p) ELSE p))
    ELSE Inc(p)

\* lwshell.c:140-147   the token that starts on a plain character
RECURSIVE Plain(_)
Plain(p0) ==
    LET p == Deref(p0) IN
    IF Rd(p) # LWSHELL_ASCII_SPACE /\ Rd(p) # LWSHELL_ASCII_NULL
    THEN Plain(Inc(IF Rd(p) = QUOTE THEN Wr0(p) ELSE p))
    ELSE Inc(Wr0(p))

\* lwshell.c:112-154   while (*str != '\0') { ... }
RECURSIVE Tokenize(_)
Tokenize(p0) ==
    LET p == Deref(p0) IN
    IF Rd(p) = LWSHELL_ASCII_NULL THEN p
    ELSE LET s == SkipSpaces(p) IN
         IF Rd(s) = LWSHELL_ASCII_NULL THEN s
         ELSE LET t == IF Rd(s) = QUOTE THEN Quoted(AddArg(Inc(s)))
                       ELSE Plain(AddArg(s))
              IN  IF t.argc = ArgvSize THEN t ELSE Tokenize(t)

\* the text of argv[0..n-1] as the handlers read it
ArgTexts(b, bp, lay, av, n) == [k \in 1..n |-> CStr(b, bp, lay, av[k - 1])]

\* Matching with a break behind the first call
RECURSIVE Matching_first(_, _, _, _)
Matching_first(tab, cnt, i, first) ==
    IF i >= cnt THEN <<>>
    ELSE IF tab[i].name = first THEN <<tab[i].fn>>
    ELSE Matching_first(tab, cnt, i + 1, first)

\* lwshell.c:159-163   the handlers called, in table order
RECURSIVE Matching(_, _, _, _)
Matching(tab, cnt, i, first) ==
    IF i >= cnt THEN <<>>
    ELSE (IF tab[i].name = first THEN <<tab[i].fn>> ELSE <<>>)
         \o Matching(tab, cnt, i + 1, first)

\* lwshell.c:84-166.  sh is [buff, buff_ptr, argc, argv, events]; the result is
\* sh after the call, with one more event: the line as found, whether it was
\* tokenized, the tokens handed to the handlers and the handlers called.
prv_parse_input(sh, tab, cnt, lay) ==
    LET line == CStr(sh.buff, sh.buff_ptr, lay, 0)
        skip == [line |-> line, ptr |-> sh.buff_ptr, parsed |-> FALSE,
                 argc |-> 0, args |-> <<>>, fns |-> <<>>, hi |-> 0]
    IN
    IF sh.buff_ptr # Len(line) THEN [sh EXCEPT !.events = Append(@, skip)]
    ELSE IF ~(sh.buff_ptr > 0) THEN [sh EXCEPT !.events = Append(@, skip)]
    ELSE LET t == Tokenize([buff |-> sh.buff, bp |-> sh.buff_ptr, lay |-> lay,
                            argc |-> 0, argv |-> [sh.argv EXCEPT ![0] = 0],
                            str |-> 0, hi |-> 0])
             args == ArgTexts(t.buff, t.bp, lay, t.argv, t.argc)
             fns == IF t.argc > 0 /\ cnt > 0
                    THEN Matching(tab, cnt, 0, args[1]) ELSE <<>>
         IN  [sh EXCEPT !.buff = t.buff, !.argc = t.argc, !.argv = t.argv,
                        !.events = Append(@, [line |-> line, ptr |-> sh.buff_ptr,
                                              parsed |-> TRUE, argc |-> t.argc,
                                              args |-> args, fns |-> fns,
                                              hi |-> t.hi])]

\* LWSHELL_RESET_BUFF that leaves buff_ptr where it is
LWSHELL_RESET_BUFF_ptr(sh) == [sh EXCEPT !.buff = ZeroBuff, !.argv = ZeroArgv]

\* LWSHELL_RESET_BUFF that clears the token count too
LWSHELL_RESET_BUFF_argc(sh) ==
    [sh EXCEPT !.buff = ZeroBuff, !.argv = ZeroArgv, !.buff_ptr = 0, !.argc = 0]

\* LWSHELL_RESET_BUFF that clears the tokens and leaves the line
LWSHELL_RESET_BUFF_argv(sh) == [sh EXCEPT !.argv = ZeroArgv]

\* LWSHELL_RESET_BUFF, lwshell.c:74-78
LWSHELL_RESET_BUFF(sh) ==
    [sh EXCEPT !.buff = ZeroBuff, !.argv = ZeroArgv, !.buff_ptr = 0]

\* LWSHELL_ADD_CH that puts the character over the last one when the buffer is full
LWSHELL_ADD_CH_over(sh, ch) ==
    IF sh.buff_ptr < BuffSize - 1
    THEN [sh EXCEPT !.buff = [@ EXCEPT ![sh.buff_ptr] = ch,
                                       ![sh.buff_ptr + 1] = LWSHELL_ASCII_NULL],
                    !.buff_ptr = @ + 1]
    ELSE [sh EXCEPT !.buff[sh.buff_ptr - 1] = ch]

\* LWSHELL_ADD_CH, lwshell.c:67-72
LWSHELL_ADD_CH(sh, ch) ==
    IF sh.buff_ptr < BuffSize - 1
    THEN [sh EXCEPT !.buff = [@ EXCEPT ![sh.buff_ptr] = ch,
                                       ![sh.buff_ptr + 1] = LWSHELL_ASCII_NULL],
                    !.buff_ptr = @ + 1]
    ELSE sh

\* lwshell.c:233-240   case LWSHELL_ASCII_BACKSPACE
Backspace(sh) ==
    IF sh.buff_ptr > 0
    THEN [sh EXCEPT !.buff[sh.buff_ptr] = LWSHELL_ASCII_NULL, !.buff_ptr = @ - 1]
    ELSE sh

\* lwshell.c:222-246   one turn of the switch
InputByte(sh, ch, tab, cnt, lay) ==
    IF ch = LWSHELL_ASCII_CR THEN LWSHELL_RESET_BUFF(prv_parse_input(sh, tab, cnt, lay))
    ELSE IF ch = LWSHELL_ASCII_LF THEN LWSHELL_RESET_BUFF(prv_parse_input(sh, tab, cnt, lay))
    ELSE IF ch = LWSHELL_ASCII_BACKSPACE THEN Backspace(sh)
    ELSE IF ch >= 32 /\ ch < 127 THEN LWSHELL_ADD_CH(sh, ch)
    ELSE sh

\* lwshell.c:221-247   for (i = 0; i < len; ++i)
RECURSIVE InputLoop(_, _, _, _, _, _, _)
InputLoop(sh, d, len, i, tab, cnt, lay) ==
    IF i < len
    THEN InputLoop(InputByte(sh, d[i + 1], tab, cnt, lay), d, len, i + 1, tab, cnt, lay)
    ELSE sh

\* lwshell_input that starts every call on an empty line
lwshell_input_restart(sh, d, len, tab, cnt, lay) ==
    IF d = NULLSTR \/ len = 0
    THEN [sh |-> sh, ret |-> "lwshellERRPAR"]
    ELSE [sh |-> InputLoop([sh EXCEPT !.buff = ZeroBuff, !.buff_ptr = 0],
                           d, len, 0, tab, cnt, lay),
          ret |-> "lwshellOK"]

\* lwshell_input without the test of len
lwshell_input_nolen(sh, d, len, tab, cnt, lay) ==
    IF d = NULLSTR
    THEN [sh |-> sh, ret |-> "lwshellERRPAR"]
    ELSE [sh |-> InputLoop(sh, d, len, 0, tab, cnt, lay), ret |-> "lwshellOK"]

\* lwshell_input, lwshell.c:211-249: the shell after the call and the value
\* returned.  d is the memory at in_data (NULLSTR for a null pointer).
lwshell_input(sh, d, len, tab, cnt, lay) ==
    IF d = NULLSTR \/ len = 0
    THEN [sh |-> sh, ret |-> "lwshellERRPAR"]
    ELSE [sh |-> InputLoop(sh, d, len, 0, tab, cnt, lay), ret |-> "lwshellOK"]

\* lwshell_init that rewinds the line and leaves its characters and the tokens
lwshell_init_rewind(sh) == [sh EXCEPT !.buff_ptr = 0, !.argc = 0]

\* lwshell_init, lwshell.c:172-177   memset(lw, 0x00, sizeof(*lw))
lwshell_init(sh) ==
    [sh EXCEPT !.buff = ZeroBuff, !.buff_ptr = 0, !.argc = 0, !.argv = ZeroArgv]

\* lwshell_register_cmd that counts before it stores: cmds[++cmds_cnt]
lwshell_register_cmd_pre(tab, cnt, cmd_name, cmd_fn, desc) ==
    IF cmd_name = NULLSTR \/ cmd_fn = 0 \/ Len(cmd_name) = 0
    THEN [cmds |-> tab, cmds_cnt |-> cnt, ret |-> "lwshellERRPAR"]
    ELSE IF cnt < CmdsSize
    THEN [cmds |-> [i \in 0..(CmdsSize - 1) |->
                       IF i = cnt + 1
                       THEN [fn |-> cmd_fn, name |-> cmd_name, desc |-> desc]
                       ELSE tab[i]],
          cmds_cnt |-> cnt + 1, ret |-> "lwshellOK"]
    ELSE [cmds |-> tab, cmds_cnt |-> cnt, ret |-> "lwshellERRMEM"]

\* lwshell_register_cmd with <= for < in the test for a free slot
lwshell_register_cmd_le(tab, cnt, cmd_name, cmd_fn, desc) ==
    IF cmd_name = NULLSTR \/ cmd_fn = 0 \/ Len(cmd_name) = 0
    THEN [cmds |-> tab, cmds_cnt |-> cnt, ret |-> "lwshellERRPAR"]
    ELSE IF cnt <= CmdsSize
    THEN [cmds |-> [i \in 0..(CmdsSize - 1) |->
                       IF i = cnt THEN [fn |-> cmd_fn, name |-> cmd_name, desc |-> desc]
                       ELSE tab[i]],
          cmds_cnt |-> cnt + 1, ret |-> "lwshellOK"]
    ELSE [cmds |-> tab, cmds_cnt |-> cnt, ret |-> "lwshellERRMEM"]

\* lwshell_register_cmd, lwshell.c:186-203: the table, the count and the
\* value returned
lwshell_register_cmd(tab, cnt, cmd_name, cmd_fn, desc) ==
    IF cmd_name = NULLSTR \/ cmd_fn = 0 \/ Len(cmd_name) = 0
    THEN [cmds |-> tab, cmds_cnt |-> cnt, ret |-> "lwshellERRPAR"]
    ELSE IF cnt < CmdsSize
    THEN [cmds |-> [tab EXCEPT ![cnt] = [fn |-> cmd_fn, name |-> cmd_name, desc |-> desc]],
          cmds_cnt |-> cnt + 1, ret |-> "lwshellOK"]
    ELSE [cmds |-> tab, cmds_cnt |-> cnt, ret |-> "lwshellERRMEM"]

(* ---------------------------------------------------------------------- *)
(* The calls an application makes                                          *)
(* ---------------------------------------------------------------------- *)

\* the shell instance as the operators above take it
Shell == [buff |-> buff, buff_ptr |-> buff_ptr, argc |-> argc, argv |-> argv,
          events |-> <<>>]

\* the shell instance in zeroed static storage
FreshShell == [buff |-> ZeroBuff, buff_ptr |-> 0, argc |-> 0, argv |-> ZeroArgv,
               events |-> <<>>]

\* all sequences over S of length lo..hi
SeqsOf(S, lo, hi) == UNION {[1..n -> S] : n \in lo..hi}

\* the handler calls of a sequence of events, in order: the handler with the
\* argument count and the argument texts it was given
RECURSIVE CallsOf(_)
CallsOf(evs) ==
    IF evs = <<>> THEN <<>>
    ELSE [k \in 1..Len(Head(evs).fns) |->
             [fn |-> Head(evs).fns[k], argc |-> Head(evs).argc, args |-> Head(evs).args]]
         \o CallsOf(Tail(evs))

\* bytes fed in Spec: one for each case of the switch, and for the default case
\* a printable byte and one that is not
ApiBytes == {LWSHELL_ASCII_BACKSPACE, LWSHELL_ASCII_LF, LWSHELL_ASCII_CR,
             CH_c, LWSHELL_ASCII_DEL}
Chunks == SeqsOf(ApiBytes, 1, MaxChunk)

\* arguments of lwshell_register_cmd in Spec: a null name, an empty name, "c";
\* a null handler and a handler; a null and a non-null description
NameArgs == {NULLSTR, <<>>, <<CH_c>>}
FnArgs == {0, 1}
DescArgs == {0, 1}

\* lwshell_init()
CallInit ==
    \E r \in {lwshell_init(Shell)} :
    /\ buff' = r.buff /\ buff_ptr' = r.buff_ptr /\ argc' = r.argc /\ argv' = r.argv
    /\ op' = "init" /\ arg' = <<>> /\ ret' = "lwshellOK" /\ events' = <<>>
    /\ UNCHANGED <<cmds, cmds_cnt, layout, pending, fed, log>>

\* lwshell_register_cmd(cmd_name, cmd_fn, desc)
CallRegister ==
    \E cmd_name \in NameArgs, cmd_fn \in FnArgs, desc \in DescArgs :
        \E r \in {lwshell_register_cmd(cmds, cmds_cnt, cmd_name, cmd_fn, desc)} :
        /\ cmds' = r.cmds /\ cmds_cnt' = r.cmds_cnt
        /\ op' = "register" /\ arg' = <<cmd_name, cmd_fn, desc>> /\ ret' = r.ret
        /\ events' = <<>>
        /\ UNCHANGED <<buff, buff_ptr, argc, argv, layout, pending, fed, log>>

\* the effect of lwshell_input(d, len) on the variables
DoInput(d, len) ==
    \E r \in {lwshell_input(Shell, d, len, cmds, cmds_cnt, layout)} :
    /\ buff' = r.sh.buff /\ buff_ptr' = r.sh.buff_ptr
    /\ argc' = r.sh.argc /\ argv' = r.sh.argv
    /\ op' = "input" /\ arg' = <<d, len>> /\ ret' = r.ret
    /\ events' = r.sh.events
    /\ UNCHANGED <<cmds, cmds_cnt, layout>>

\* lwshell_input(in_data, len): a chunk with its length, a chunk with length
\* zero, a null pointer
CallInput ==
    /\ \E d \in Chunks \cup {NULLSTR} : \E len \in {0, Len(d)} : DoInput(d, len)
    /\ UNCHANGED <<pending, fed, log>>

\* static storage: all zero
Init ==
    /\ buff = ZeroBuff /\ buff_ptr = 0 /\ argc = 0 /\ argv = ZeroArgv
    /\ cmds = [i \in 0..(CmdsSize - 1) |-> ZeroCmd] /\ cmds_cnt = 0
    /\ layout \in Layouts
    /\ op = "none" /\ arg = <<>> /\ ret = "lwshellOK" /\ events = <<>>
    /\ pending = <<>> /\ fed = <<>> /\ log = <<>>

Next == CallInit \/ CallRegister \/ CallInput

Spec == Init /\ [][Next]_vars

(* ---------------------------------------------------------------------- *)
(* SpecLine: one whole line, fed to a fresh shell in one call              *)
(* SpecType: the same, the line typed with backspaces                      *)
(* SpecChunks: a byte stream, fed to a fresh shell chunk by chunk          *)
(* ---------------------------------------------------------------------- *)

\* what a line is made of: the characters the tokenizer tells apart
LineBytes == {LWSHELL_ASCII_SPACE, QUOTE, BACKSLASH, CH_c}
LineTexts == SeqsOf(LineBytes, 0, LWSHELL_CFG_MAX_INPUT_LEN)

\* what a line is typed with: words, spaces and the backspace
TypeBytes == {LWSHELL_ASCII_SPACE, CH_c, LWSHELL_ASCII_BACKSPACE}
TypedTexts == SeqsOf(TypeBytes, 0, LWSHELL_CFG_MAX_INPUT_LEN)

\* what a stream is made of
StreamBytes == ApiBytes \cup {LWSHELL_ASCII_SPACE, QUOTE}
Streams == SeqsOf(StreamBytes, 1, MaxStream)

\* the command names registered: "c" and "cc"
CmdNames == {<<CH_c>>, <<CH_c, CH_c>>}

\* the table that registering the names in order, the i-th with handler i, leaves
TableOf(names) ==
    [i \in 0..(CmdsSize - 1) |->
        IF i < Len(names) THEN [fn |-> i + 1, name |-> names[i + 1], desc |-> 0]
        ELSE ZeroCmd]
LineTables == SeqsOf(CmdNames, 0, CmdsSize)

InitFresh(inputs) ==
    /\ buff = ZeroBuff /\ buff_ptr = 0 /\ argc = 0 /\ argv = ZeroArgv
    /\ \E names \in LineTables : cmds = TableOf(names) /\ cmds_cnt = Len(names)
    /\ layout \in Layouts
    /\ op = "none" /\ arg = <<>> /\ ret = "lwshellOK" /\ events = <<>>
    /\ pending \in inputs /\ fed = <<>> /\ log = <<>>

\* lwshell_input(d, Len(d)) for the first k bytes d of what is pending
FeedFirst(k) ==
    LET d == SubSeq(pending, 1, k) IN
    /\ DoInput(d, k)
    /\ pending' = SubSeq(pending, k + 1, Len(pending))
    /\ fed' = fed \o d
    /\ log' = log \o CallsOf(events')

\* a text and the CR or the LF that completes it
Terminated(texts) ==
    {Append(l, t) : l \in texts, t \in {LWSHELL_ASCII_CR, LWSHELL_ASCII_LF}}

InitLine == InitFresh(Terminated(LineTexts))

\* the line and its terminator in one call
FeedLine == pending # <<>> /\ FeedFirst(Len(pending))

NextLine == FeedLine

SpecLine == InitLine /\ [][NextLine]_vars

InitType == InitFresh(Terminated(TypedTexts))

NextType == FeedLine

SpecType == InitType /\ [][NextType]_vars

\* SpecLong: a line of about the capacity of the buffer, fed byte by byte
LongTexts == SeqsOf({CH_c, LWSHELL_ASCII_SPACE},
                    LWSHELL_CFG_MAX_INPUT_LEN - 1, LWSHELL_CFG_MAX_INPUT_LEN + 2)

InitLong == InitFresh(Terminated(LongTexts))

\* lwshell_input(the next byte, 1)
FeedByte == pending # <<>> /\ FeedFirst(1)

NextLong == FeedByte

SpecLong == InitLong /\ [][NextLong]_vars

\* SpecLines: two lines one after the other, each fed with its terminator in
\* one call
PartTexts == SeqsOf(TypeBytes, 0, MaxPart)
TwoLines == {a \o b : a \in Terminated(PartTexts), b \in Terminated(PartTexts)}

InitLines == InitFresh(TwoLines)

\* the index of the first CR or LF of s
LineEnd(s) ==
    CHOOSE k \in 1..Len(s) :
        /\ s[k] \in {LWSHELL_ASCII_CR, LWSHELL_ASCII_LF}
        /\ \A m \in 1..(k - 1) : s[m] \notin {LWSHELL_ASCII_CR, LWSHELL_ASCII_LF}

\* lwshell_input(the next line with its terminator)
FeedNextLine == pending # <<>> /\ FeedFirst(LineEnd(pending))

NextLines == FeedNextLine

SpecLines == InitLines /\ [][NextLines]_vars

InitChunks == InitFresh(Streams)

\* the next chunk of the stream, of any length
FeedChunk == \E k \in 1..Len(pending) : FeedFirst(k)

NextChunks == FeedChunk

SpecChunks == InitChunks /\ [][NextChunks]_vars

(* ---------------------------------------------------------------------- *)
(* Properties                                                              *)
(* ---------------------------------------------------------------------- *)

\* the result of feeding d to a fresh shell in one lwshell_input call
Whole(d) == lwshell_input(FreshShell, d, Len(d), cmds, cmds_cnt, layout)

\* SpecLine: the line typed, without its terminator, and what became of it
TheLine == SubSeq(fed, 1, Len(fed) - 1)
TheEvent == events[1]

\* the words of a text: its maximal runs of characters other than the space
RECURSIVE SplitWords(_, _)
SplitWords(s, cur) ==
    IF s = <<>> THEN (IF cur = <<>> THEN <<>> ELSE <<cur>>)
    ELSE IF Head(s) = LWSHELL_ASCII_SPACE
    THEN (IF cur = <<>> THEN <<>> ELSE <<cur>>) \o SplitWords(Tail(s), <<>>)
    ELSE SplitWords(Tail(s), Append(cur, Head(s)))
Words(s) == SplitWords(s, <<>>)

\* a text as the user meant it: each backspace deletes the character typed
\* last, and does nothing when there is none
RECURSIVE Correct(_, _)
Correct(s, acc) ==
    IF s = <<>> THEN acc
    ELSE IF Head(s) = LWSHELL_ASCII_BACKSPACE
    THEN Correct(Tail(s), IF acc = <<>> THEN acc ELSE SubSeq(acc, 1, Len(acc) - 1))
    ELSE Correct(Tail(s), Append(acc, Head(s)))
Corrected(s) == Correct(s, <<>>)

Only(s, S) == \A k \in 1..Len(s) : s[k] \in S

\* C1 (SpecChunks): however the bytes fed so far were cut into chunks, the
\* handler calls made (handlers, order, argument counts and texts) and the
\* shell (buffer, length, tokens, token count) are those of feeding the same
\* bytes in one call.
C1_ChunkIndependence ==
    fed # <<>> =>
        \A w \in {Whole(fed).sh} :
            /\ log = CallsOf(w.events)
            /\ buff = w.buff /\ buff_ptr = w.buff_ptr
            /\ argc = w.argc /\ argv = w.argv

\* a command behind an opening quote, completed by an LF that arrives in a call
\* of its own: the line crosses calls, and a handler is called
C1_Witness ==
    /\ pending = <<>> /\ Len(fed) >= 3 /\ log # <<>>
    /\ arg = <<(<<LWSHELL_ASCII_LF>>), 1>>
    /\ fed[Len(fed) - 1] = CH_c /\ fed[1] = QUOTE

\* C2 (SpecType): a line of printable bytes and backspaces dispatches as the
\* corrected text does, wherever the backspaces stand.
C2_BackspaceCorrection ==
    op = "input" =>
        log = CallsOf(Whole(Append(Corrected(TheLine), fed[Len(fed)])).sh.events)

\* the handlers of a table (handler i + 1 sits in slot i) whose name is `first`
MatchingSlots(first) == {i \in 0..(cmds_cnt - 1) : cmds[i].name = first}

\* C3 (SpecLine): when the line gave at least one token, the handlers called
\* are exactly those of the entries named like the first token, each once, in
\* registration order, all with the same tokens.
C3_AllMatchesDispatch ==
    (op = "input" /\ TheEvent.parsed /\ TheEvent.argc > 0) =>
        LET f == TheEvent.fns IN
        /\ {f[k] : k \in 1..Len(f)} = {i + 1 : i \in MatchingSlots(TheEvent.args[1])}
        /\ \A j, k \in 1..Len(f) : j < k => f[j] < f[k]
        /\ Len(log) = Len(f)
        /\ \A k \in 1..Len(f) :
               log[k] = [fn |-> f[k], argc |-> TheEvent.argc, args |-> TheEvent.args]

\* two entries of the same name, both called, the earlier first
C3_Witness ==
    /\ op = "input" /\ cmds_cnt = 2 /\ cmds[0].name = cmds[1].name
    /\ Len(log) = 2 /\ log[1].fn = 1 /\ log[2].fn = 2

\* C4 (SpecLine): a line of N words of plain characters, 1 <= N <= the
\* maximum token count, separated by runs of spaces, gives N tokens: the words.
C4_PlainTokenization ==
    (/\ op = "input"
     /\ Only(TheLine, {CH_c, LWSHELL_ASCII_SPACE})
     /\ Len(Words(TheLine)) \in 1..ArgvSize) =>
        /\ TheEvent.parsed
        /\ TheEvent.argc = Len(Words(TheLine))
        /\ TheEvent.args = Words(TheLine)

\* the lines "pre" + quote + body + quote + post in which the opening quote
\* starts a token (pre is empty or ends in a space), pre and post are plain
\* words and spaces, and no character of the body is a quote or follows or
\* ends in a backslash other than a plain one
QuotedAt(l, i, j) ==
    /\ i < j /\ l[i] = QUOTE /\ l[j] = QUOTE
    /\ Only(l, {CH_c, LWSHELL_ASCII_SPACE, QUOTE, BACKSLASH})
    /\ Only(SubSeq(l, 1, i - 1), {CH_c, LWSHELL_ASCII_SPACE})
    /\ (i = 1 \/ l[i - 1] = LWSHELL_ASCII_SPACE)
    /\ Only(SubSeq(l, j + 1, Len(l)), {CH_c, LWSHELL_ASCII_SPACE})
    /\ \A k \in (i + 1)..(j - 1) :
           /\ l[k] # QUOTE
           /\ l[k] = BACKSLASH => (k + 1 < j /\ l[k + 1] # BACKSLASH)

C5_WitnessNext ==
    /\ op = "input" /\ TheLine = <<QUOTE, CH_c, QUOTE, LWSHELL_ASCII_SPACE, CH_c>>
    /\ TheEvent.argc >= 2 /\ TheEvent.args[2] = <<CH_c>>

\* C6 (SpecChunks): a line followed by CR and then LF is dispatched once, by
\* the CR: the calls made are those of the line with its CR, and the LF finds
\* an empty buffer and calls nothing.
C6_CrLfOnce ==
    (/\ Len(fed) >= 2 /\ fed[Len(fed)] = LWSHELL_ASCII_LF
     /\ fed[Len(fed) - 1] = LWSHELL_ASCII_CR) =>
        LET e == events[Len(events)] IN
        /\ e.line = <<>> /\ e.ptr = 0 /\ ~e.parsed /\ e.fns = <<>>
        /\ log = CallsOf(Whole(SubSeq(fed, 1, Len(fed) - 1)).sh.events)
        /\ buff_ptr = 0

\* "c" CR LF with "c" registered once: one call
C6_Witness ==
    /\ fed = <<CH_c, LWSHELL_ASCII_CR, LWSHELL_ASCII_LF>>
    /\ cmds_cnt = 1 /\ cmds[0].name = <<CH_c>>
    /\ Len(log) = 1 /\ log[1].args = <<(<<CH_c>>)>>

\* C7 (SpecLine): an empty line and a line of spaces give no token and call no
\* handler, and lwshell_input returns lwshellOK; with an empty table no line
\* calls a handler.
C7_NoTokensNoDispatch ==
    op = "input" =>
        /\ Only(TheLine, {LWSHELL_ASCII_SPACE}) =>
               /\ TheEvent.argc = 0 /\ TheEvent.args = <<>>
               /\ TheEvent.fns = <<>> /\ log = <<>> /\ ret = "lwshellOK"
        /\ cmds_cnt = 0 => (TheEvent.fns = <<>> /\ log = <<>>)

\* a line of spaces typed with commands registered
C7_Witness ==
    /\ op = "input" /\ Len(TheLine) >= 2 /\ Only(TheLine, {LWSHELL_ASCII_SPACE})
    /\ cmds_cnt > 0 /\ log = <<>> /\ ret = "lwshellOK"

\* the arguments lwshell_register_cmd rejects
BadRegisterArgs(a) == a[1] = NULLSTR \/ a[1] = <<>> \/ a[2] = 0

\* C8 (Spec): lwshell_register_cmd returns lwshellERRPAR for a null or empty
\* name or a null handler, lwshellERRMEM when the table is full, and then
\* leaves the table and its count as they were.
C8_FailedRegisterKeepsTable ==
    [][op' = "register" =>
          /\ BadRegisterArgs(arg') => ret' = "lwshellERRPAR"
          /\ (~BadRegisterArgs(arg') /\ cmds_cnt = CmdsSize) => ret' = "lwshellERRMEM"
          /\ ret' # "lwshellOK" => (cmds' = cmds /\ cmds_cnt' = cmds_cnt)
          /\ ret' = "lwshellOK" => (~BadRegisterArgs(arg') /\ cmds_cnt < CmdsSize)
      ]_vars

\* a registration refused by a full table
C8_Witness ==
    /\ op = "register" /\ ret = "lwshellERRMEM" /\ cmds_cnt = CmdsSize
    /\ ~BadRegisterArgs(arg)

\* C9 (Spec): lwshell_input returns lwshellERRPAR for a null source or a zero
\* length, and then changes nothing and calls nothing; every other call
\* returns lwshellOK.
C9_InputReturn ==
    [][op' = "input" =>
          IF arg'[1] = NULLSTR \/ arg'[2] = 0
          THEN /\ ret' = "lwshellERRPAR" /\ events' = <<>>
               /\ UNCHANGED <<buff, buff_ptr, argc, argv, cmds, cmds_cnt>>
          ELSE ret' = "lwshellOK"
      ]_vars

\* a call with data and length zero while a line is being typed
C9_Witness ==
    /\ op = "input" /\ ret = "lwshellERRPAR" /\ arg[1] # NULLSTR /\ arg[2] = 0
    /\ buff_ptr > 0

\* C10 (Spec): in every state the buffer has no NUL below its logical length
\* and a NUL at it: strlen(buff) = buff_ptr.
C10_BufferWellFormed ==
    /\ \A i \in 0..(buff_ptr - 1) : buff[i] # LWSHELL_ASCII_NULL
    /\ buff[buff_ptr] = LWSHELL_ASCII_NULL
    /\ StrLen(buff, buff_ptr, layout) = buff_ptr


Min(a, b) == IF a < b THEN a ELSE b

\* the first BuffSize - 1 characters of a text
Kept(l) == SubSeq(l, 1, Min(Len(l), BuffSize - 1))

\* C11 (SpecLong): buff_ptr never exceeds BuffSize - 1; a printable byte that
\* arrives when buff_ptr is BuffSize - 1 changes neither buff nor buff_ptr; a line
\* longer than that is dispatched as its first BuffSize - 1 characters are.
C11_LengthBound ==
    /\ [](buff_ptr <= BuffSize - 1)
    /\ [][(op' = "input" /\ buff_ptr = BuffSize - 1
           /\ arg'[1][1] >= 32 /\ arg'[1][1] < 127)
          => (buff' = buff /\ buff_ptr' = buff_ptr /\ events' = <<>>)]_vars
    /\ []((pending = <<>> /\ fed # <<>>) =>
            /\ Len(events) = 1
            /\ events[1].line = Kept(TheLine)
            /\ log = CallsOf(Whole(Append(Kept(TheLine), fed[Len(fed)])).sh.events))

\* a line one character too long, of two words, dispatched without its last
\* character
C11_Witness ==
    /\ pending = <<>> /\ Len(TheLine) = BuffSize /\ TheLine[BuffSize] = CH_c
    /\ TheLine[BuffSize - 1] = LWSHELL_ASCII_SPACE
    /\ events[1].line = SubSeq(TheLine, 1, BuffSize - 1)
    /\ log # <<>>


\* the last byte of the chunk of an accepted lwshell_input call is CR or LF
EndsLine(a) ==
    /\ a[1] # NULLSTR /\ a[2] > 0
    /\ a[1][a[2]] \in {LWSHELL_ASCII_CR, LWSHELL_ASCII_LF}

\* C12 as stated: after a CR or LF has been processed, handler called or not, line
\* discarded by the guard or not, buff is cleared, buff_ptr is zero, argv is
\* cleared and argc is zero.
C12_FullReset ==
    (op = "input" /\ EndsLine(arg)) =>
        /\ buff = ZeroBuff /\ buff_ptr = 0 /\ argv = ZeroArgv
        /\ argc = 0

\* argc after the lines of evs: the count of the last line that was tokenized
RECURSIVE StaleArgc(_, _)
StaleArgc(evs, old) ==
    IF evs = <<>> THEN old
    ELSE StaleArgc(Tail(evs), IF Head(evs).parsed THEN Head(evs).argc ELSE old)

\* C12 amended: after a CR or LF has been processed, handler called or not, line
\* discarded by the guard or not, buff is cleared, buff_ptr is zero and argv is
\* cleared; argc is not reset: it is the token count of the last line that was
\* tokenized, and what it was before when the line was empty or discarded.
C12_ResetKeepsCount ==
    [][(op' = "input" /\ EndsLine(arg')) =>
          /\ buff' = ZeroBuff /\ buff_ptr' = 0 /\ argv' = ZeroArgv
          /\ argc' = StaleArgc(events', argc)
      ]_vars

\* a one-token line has been completed: all is cleared but the count
C12_Witness ==
    /\ op = "input" /\ EndsLine(arg)
    /\ Len(events) = 1 /\ events[1].parsed /\ events[1].args = <<(<<CH_c>>)>>
    /\ buff = ZeroBuff /\ buff_ptr = 0 /\ argv = ZeroArgv /\ argc = 1

\* an empty line completed after a one-token line: the count is still one
C12_WitnessStale ==
    /\ op = "input" /\ EndsLine(arg)
    /\ Len(events) = 1 /\ ~events[1].parsed /\ events[1].line = <<>>
    /\ argc = 1


\* C13 (Spec): over lwshell_register_cmd, lwshell_input and lwshell_init the table
\* only grows: cmds_cnt never decreases, an entry below cmds_cnt keeps its name,
\* handler and description, and a successful registration stores its three
\* arguments at index cmds_cnt and adds one to cmds_cnt.
C13_RegistryAppendOnly ==
    [][/\ cmds_cnt' >= cmds_cnt
       /\ \A i \in 0..(cmds_cnt - 1) : cmds'[i] = cmds[i]
       /\ (op' = "register" /\ ret' = "lwshellOK") =>
             /\ cmds_cnt' = cmds_cnt + 1
             /\ cmds'[cmds_cnt] = [fn |-> arg'[2], name |-> arg'[1], desc |-> arg'[3]]
       /\ cmds_cnt' # cmds_cnt => (op' = "register" /\ ret' = "lwshellOK")
      ]_vars

\* a second command has been registered behind a first one with another
\* description
C13_Witness ==
    /\ op = "register" /\ ret = "lwshellOK" /\ cmds_cnt = 2
    /\ cmds[1] = [fn |-> arg[2], name |-> arg[1], desc |-> arg[3]]
    /\ cmds[0].desc # cmds[1].desc

\* lwshell_init called with commands registered
C13_WitnessInit == op = "init" /\ cmds_cnt > 0


\* C14 (Spec): lwshell_init always returns lwshellOK and leaves the shell as it is
\* in zeroed storage: buff cleared, buff_ptr zero, argv cleared, argc zero, so
\* that nothing of a line begun before it is left for a later dispatch; cmds and
\* cmds_cnt are unchanged.
C14_InitEffect ==
    [][op' = "init" =>
          /\ ret' = "lwshellOK"
          /\ [buff |-> buff', buff_ptr |-> buff_ptr', argc |-> argc',
              argv |-> argv', events |-> <<>>] = FreshShell
          /\ UNCHANGED <<cmds, cmds_cnt>>
      ]_vars

\* lwshell_init has been called with the table full
C14_Witness ==
    /\ op = "init" /\ ret = "lwshellOK"
    /\ cmds_cnt = CmdsSize /\ cmds[0].name = <<CH_c>>
    /\ buff = ZeroBuff /\ buff_ptr = 0 /\ argc = 0


\* C15 as stated (SpecLine): while a completed line is tokenized, also one that
\* fills the buffer and ends in an unquoted token, every index of buff that is
\* read or written and every token start stored in argv is within
\* 0..BuffSize - 1.
C15_TokenizerInsideBuffer ==
    (op = "input" /\ TheEvent.parsed) => TheEvent.hi <= BuffSize - 1


\* where the quoted token whose characters start at l[k] is closed when a
\* backslash escapes the character behind it, whatever it is: the index of the
\* first quote that is not escaped, 0 if there is none
RECURSIVE ClosingQuote(_, _)
ClosingQuote(l, k) ==
    IF k > Len(l) THEN 0
    ELSE IF l[k] = BACKSLASH THEN ClosingQuote(l, k + 2)
    ELSE IF l[k] = QUOTE THEN k
    ELSE ClosingQuote(l, k + 1)

\* the quote at l[i] opens a token behind plain words and spaces
OpensToken(l, i) ==
    /\ l[i] = QUOTE
    /\ Only(SubSeq(l, 1, i - 1), {CH_c, LWSHELL_ASCII_SPACE})
    /\ (i = 1 \/ l[i - 1] = LWSHELL_ASCII_SPACE)
    /\ Len(Words(SubSeq(l, 1, i - 1))) < ArgvSize

\* C16 as stated (SpecLine): in a quoted token a backslash escapes the character
\* behind it, whatever it is: both are kept, the escaped character is not
\* interpreted (an escaped quote does not close the token, an escaped backslash
\* does not escape the next character), and the first quote that is not escaped
\* closes the token.
C16_BackslashEscapesAny ==
    op = "input" =>
        \A i \in 1..Len(TheLine) :
            (OpensToken(TheLine, i) /\ ClosingQuote(TheLine, i + 1) > 0) =>
            LET n == Len(Words(SubSeq(TheLine, 1, i - 1))) IN
                /\ TheEvent.parsed
                /\ TheEvent.argc > n
                /\ TheEvent.args[n + 1] =
                       SubSeq(TheLine, i + 1, ClosingQuote(TheLine, i + 1) - 1)


\* the first k characters of l are plain words and spaces, hold ArgvSize words,
\* and the last of these words ends there
FillsArgv(l, k) ==
    /\ Only(SubSeq(l, 1, k), {CH_c, LWSHELL_ASCII_SPACE})
    /\ Len(Words(SubSeq(l, 1, k))) = ArgvSize
    /\ (k = Len(l) \/ l[k] = LWSHELL_ASCII_SPACE)

\* C17 (SpecLine): argc never exceeds ArgvSize; when ArgvSize tokens have been
\* found the tokenizer stops: the arguments are the first ArgvSize words, in
\* order, and whatever follows them on the line is in no argument and changes no
\* handler call.
C17_TokenLimit ==
    op = "input" =>
        /\ TheEvent.argc <= ArgvSize /\ argc <= ArgvSize
        /\ \A k \in 1..Len(TheLine) :
               FillsArgv(TheLine, k) =>
                   /\ TheEvent.parsed
                   /\ TheEvent.argc = ArgvSize
                   /\ TheEvent.args = Words(SubSeq(TheLine, 1, k))
                   /\ log = CallsOf(Whole(Append(SubSeq(TheLine, 1, k),
                                                 fed[Len(fed)])).sh.events)

\* ArgvSize words of a registered name, a space and one more character, which
\* is not a plain one: the handlers are called with the words
C17_Witness ==
    /\ op = "input" /\ FillsArgv(TheLine, Len(TheLine) - 1)
    /\ TheLine[Len(TheLine)] = QUOTE
    /\ TheEvent.argc = ArgvSize
    /\ TheEvent.args = Words(SubSeq(TheLine, 1, Len(TheLine) - 1))
    /\ log # <<>>


\* l[s..j-1] is a run of characters other than the space that starts a token
\* behind plain words and spaces, does not start with a quote, and has its
\* first quote at l[i]; behind the run, plain words and spaces
QuoteInPlain(l, s, i, j) ==
    /\ s < i /\ i < j /\ l[i] = QUOTE
    /\ Only(SubSeq(l, 1, s - 1), {CH_c, LWSHELL_ASCII_SPACE})
    /\ (s = 1 \/ l[s - 1] = LWSHELL_ASCII_SPACE)
    /\ Only(SubSeq(l, s, i - 1), {CH_c, BACKSLASH})
    /\ Only(SubSeq(l, i, j - 1), {CH_c, BACKSLASH, QUOTE})
    /\ (j = Len(l) + 1 \/ l[j] = LWSHELL_ASCII_SPACE)
    /\ Only(SubSeq(l, j, Len(l)), {CH_c, LWSHELL_ASCII_SPACE})

\* C18 (SpecLine): a quote inside an unquoted token ends the token there: the
\* argument is the characters before the first quote; the characters from that
\* quote to the next space or the end of the line are in no argument, and the
\* next token is looked for behind that space.
C18_QuoteEndsPlainToken ==
    op = "input" =>
        \A s, i \in 1..Len(TheLine), j \in 1..(Len(TheLine) + 1) :
            QuoteInPlain(TheLine, s, i, j) =>
            LET expected == Words(SubSeq(TheLine, 1, s - 1))
                            \o <<SubSeq(TheLine, s, i - 1)>>
                            \o Words(SubSeq(TheLine, j, Len(TheLine)))
                m == Min(ArgvSize, Len(expected))
            IN  /\ TheEvent.parsed
                /\ TheEvent.argc >= m
                /\ \A t \in 1..m : TheEvent.args[t] = expected[t]
                /\ TheEvent.hi <= BuffSize - 1 => TheEvent.argc = m

\* the line  c"c c  gives the arguments c and c
C18_Witness ==
    /\ op = "input"
    /\ TheLine = <<CH_c, QUOTE, CH_c, LWSHELL_ASCII_SPACE, CH_c>>
    /\ TheEvent.args = <<(<<CH_c>>), (<<CH_c>>)>>

\* the line  c"c"  gives the one argument c
C18_WitnessAlone ==
    /\ op = "input" /\ TheLine = <<CH_c, QUOTE, CH_c, QUOTE>>
    /\ TheEvent.args = <<(<<CH_c>>)>>


\* C19 (SpecLine): a token opened by a quote that no unescaped quote closes
\* before the end of the line is one argument, the last: every character behind
\* the opening quote up to the end of the line, spaces included.
C19_UnclosedQuote ==
    op = "input" =>
        \A i \in 1..Len(TheLine) :
            (OpensToken(TheLine, i) /\ ClosingQuote(TheLine, i + 1) = 0) =>
            LET pre == Words(SubSeq(TheLine, 1, i - 1)) IN
                /\ TheEvent.parsed
                /\ TheEvent.argc = Len(pre) + 1
                /\ TheEvent.args =
                       Append(pre, SubSeq(TheLine, i + 1, Len(TheLine)))

\* the line  c "c   (with a space at its end) gives the arguments c and "c "
\* without the quote
C19_Witness ==
    /\ op = "input"
    /\ TheLine = <<CH_c, LWSHELL_ASCII_SPACE, QUOTE, CH_c, LWSHELL_ASCII_SPACE>>
    /\ TheEvent.argc = 2
    /\ TheEvent.args = <<(<<CH_c>>), (<<CH_c, LWSHELL_ASCII_SPACE>>)>>

\* an escaped quote does not close: the line  "c\"c  gives the argument c\"c
C19_WitnessEscaped ==
    /\ op = "input" /\ TheLine = <<QUOTE, CH_c, BACKSLASH, QUOTE, CH_c>>
    /\ TheEvent.args = <<(<<CH_c, BACKSLASH, QUOTE, CH_c>>)>>


\* C20 (SpecLines): with the table fixed, what a completed line gives (whether
\* it is tokenized, the arguments, the handlers called) is what the same bytes
\* give when fed to a shell in its initial state: nothing of the line before it,
\* dispatched or discarded, has a part in it.
C20_LineIndependence ==
    (pending = <<>> /\ fed # <<>>) =>
        \A w \in {Whole(arg[1]).sh} :
            /\ events = w.events
            /\ SubSeq(log, Len(log) - Len(CallsOf(w.events)) + 1, Len(log))
                   = CallsOf(w.events)

\* two lines that both call a handler: cc to the end and then c
C20_Witness ==
    /\ pending = <<>> /\ Len(log) = 2
    /\ log[1].args = <<(<<CH_c, CH_c>>)>> /\ log[2].args = <<(<<CH_c>>)>>
    /\ log[1].fn # log[2].fn

\* a line behind one that the guard discarded
C20_WitnessDiscarded ==
    /\ pending = <<>> /\ Len(log) = 1 /\ events # <<>> /\ events[1].parsed
    /\ LineEnd(fed) = 3 /\ fed[1] = CH_c /\ fed[2] = LWSHELL_ASCII_BACKSPACE

====
